---------------------------- MODULE Spec2Model ----------------------------
(***************************************************************************)
(* Model of scripts/train.py, the training-launch script of interlacer.    *)
(*                                                                         *)
(* The script is one straight-line process.  Its state is the set of       *)
(* Python names it has bound so far (exp_config, img_train, model,         *)
(* job_name, checkpoint_dir, ...), the atexit registry, and the file       *)
(* system under the training root, which outlives the process.  One        *)
(* action models one step of the script; an uncaught exception moves the   *)
(* process to interpreter shutdown ("exiting"), where the atexit hooks     *)
(* run.  Character strings are sequences of one-character strings, so      *)
(* that concatenation and os.path.join are computed, not assumed.          *)
(*                                                                         *)
(* Two specifications:                                                     *)
(*   Spec     a campaign of up to MaxRuns processes started one after the  *)
(*            other on the same file system;                               *)
(*   SpecOne  one process on an empty training root, with the whole range  *)
(*            of command lines, configurations and data-set sizes.         *)
(***************************************************************************)
EXTENDS Integers, Sequences, FiniteSets, TLC

VARIABLES
    pc,              \* position of the running process in the script
    run,             \* number of the process within the campaign
    args,            \* parsed command line: config, experiment, suffix, debug
    train_set_size,  \* img_train.shape[0] of the data set on disk
    exp_config,      \* TrainingConfig after read_config (None before)
    img_train,       \* None while the name is unbound
    model,           \* None while the name is unbound
    job_name,
    checkpoint_dir,
    cp_callback,     \* None, or the checkpoint path template it was built with
    tb_callback,     \* None, or the log directory it was built with
    hook,            \* TRUE when del_logs is registered with atexit
    used_loss,
    compiled,        \* None, or the loss and metrics bound by model.compile
    fit_call,        \* None, or the sizing fit_generator was called with
    error,           \* the uncaught exception that ended the process, or "none"
    raised_at,       \* the step that raised it, or "none"
    fs,              \* the file system: directories and files with contents
    fs0,             \* the file system when the process started
    created,         \* paths this process has created
    prev_run         \* None, or what the process before this one, when it did
                     \* not run in debug mode, was started with, and whether
                     \* it created tensorboard/

vars == <<pc, run, args, train_set_size, exp_config, img_train, model, job_name,
          checkpoint_dir, cp_callback, tb_callback, hook, used_loss, compiled,
          fit_call, error, raised_at, fs, fs0, created, prev_run>>

(***************************************************************************)
(* Bounds of the model.                                                    *)
(***************************************************************************)
MaxRuns == 2
MaxTrainSize == 4
MaxBatchSize == 3
MaxDeviations == 1

(***************************************************************************)
(* Optional values (Python None) and unbound names.                        *)
(***************************************************************************)
None == <<>>
Some(x) == <<x>>
Val(o) == o[1]

(***************************************************************************)
(* Character strings.                                                      *)
(***************************************************************************)
SEP == "/"
DEBUG_JOB == <<"d", "e", "b", "u", "g", "_", "j", "o", "b">>
CONFIG_INI == <<"_", "c", "o", "n", "f", "i", "g", ".", "i", "n", "i">>
SUMMARY_TXT == <<"s", "u", "m", "m", "a", "r", "y", ".", "t", "x", "t">>
TENSORBOARD == <<"t", "e", "n", "s", "o", "r", "b", "o", "a", "r", "d", "/">>
EPOCH_04D == "{epoch:04d}"
checkpoint_name == <<"c", "p", "-", EPOCH_04D, ".", "c", "k", "p", "t">>
EVENTS == <<"e", "v", "e", "n", "t", "s">>

\* filepaths.TRAIN_DIR: the fixed base training directory, ending in a separator
TRAIN_DIR == <<"/", "t", "/">>

DigitChar(d) ==
    CASE d = 0 -> "0" [] d = 1 -> "1" [] d = 2 -> "2" [] d = 3 -> "3"
      [] d = 4 -> "4" [] d = 5 -> "5" [] d = 6 -> "6" [] d = 7 -> "7"
      [] d = 8 -> "8" [] d = 9 -> "9"

\* str(n) for a natural number
RECURSIVE Str(_)
Str(n) == IF n < 10 THEN <<DigitChar(n)>>
          ELSE Str(n \div 10) \o <<DigitChar(n % 10)>>

\* format(n, '04d')
RECURSIVE ZeroPad(_, _)
ZeroPad(s, w) == IF Len(s) >= w THEN s ELSE ZeroPad(<<"0">> \o s, w)

\* template.format(epoch=e)
RECURSIVE Format(_, _)
Format(template, e) ==
    IF template = <<>> THEN <<>>
    ELSE (IF Head(template) = EPOCH_04D THEN ZeroPad(Str(e), 4)
          ELSE <<Head(template)>>) \o Format(Tail(template), e)

\* os.path.join(a, b) of posixpath
PathJoin(a, b) ==
    IF b # <<>> /\ Head(b) = SEP THEN b
    ELSE IF a = <<>> \/ a[Len(a)] = SEP THEN a \o b
    ELSE a \o <<SEP>> \o b

(***************************************************************************)
(* The file system.  A path names the node reached by its non-empty        *)
(* components; fs.dirs is the set of directories, fs.files maps each file  *)
(* to its contents.  The root <<>> always exists.                          *)
(***************************************************************************)
RECURSIVE Split(_, _)
Split(p, cur) ==
    IF p = <<>> THEN (IF cur = <<>> THEN <<>> ELSE <<cur>>)
    ELSE IF Head(p) = SEP
         THEN (IF cur = <<>> THEN <<>> ELSE <<cur>>) \o Split(Tail(p), <<>>)
         ELSE Split(Tail(p), Append(cur, Head(p)))

Components(p) == Split(p, <<>>)

Prefixes(cs) == {SubSeq(cs, 1, k) : k \in 1..Len(cs)}
IsUnder(q, cs) == Len(q) >= Len(cs) /\ SubSeq(q, 1, Len(cs)) = cs
Parent(cs) == SubSeq(cs, 1, Len(cs) - 1)

NoFiles == [q \in {} |-> None]
EmptyFS == [dirs |-> {}, files |-> NoFiles]
Nodes(f) == f.dirs \cup DOMAIN f.files

\* os.path.exists(p)
Exists(f, p) ==
    \/ Components(p) = <<>>
    \/ Components(p) \in f.dirs
    \/ Components(p) \in DOMAIN f.files /\ p[Len(p)] # SEP

\* os.makedirs(p) succeeds: the leaf is new and no component is a file
CanMakedirs(f, p) ==
    /\ Components(p) \notin Nodes(f)
    /\ Prefixes(Components(p)) \cap DOMAIN f.files = {}

Makedirs(f, p) == [f EXCEPT !.dirs = @ \cup Prefixes(Components(p))]

\* open(p, 'w') succeeds: the parent is a directory and p is not one
CanWrite(f, p) ==
    /\ Components(p) # <<>>
    /\ Parent(Components(p)) \in f.dirs \cup {<<>>}
    /\ Components(p) \notin f.dirs

WriteFile(f, p, data) == [f EXCEPT !.files = (Components(p) :> data) @@ @]

\* shutil.rmtree(p, ignore_errors=True)
Rmtree(f, p) ==
    IF Components(p) \notin f.dirs THEN f
    ELSE [dirs |-> {q \in f.dirs : ~IsUnder(q, Components(p))},
          files |-> [q \in {r \in DOMAIN f.files : ~IsUnder(r, Components(p))}
                       |-> f.files[q]]]

(***************************************************************************)
(* Inputs: command lines and configuration files.                          *)
(***************************************************************************)
Datasets == {"MRI", "MNIST", "CIFAR"}
Architectures == {"CONV", "CONV_RESIDUAL", "INTERLACER_RESIDUAL", "UNET"}
LossTypes == {"image", "freq", "other"}
Losses == {"L1", "L2"}
Domains == {"FREQ", "IMAGE"}
JobNames == {<<"r", "1">>, <<"/", "a">>}
Suffixes == {None, Some(<<"s">>)}
Experiments == {None, Some(<<"e">>)}
BatchSizes == (0..MaxBatchSize) \cup {32}
TrainSizes == (1..MaxTrainSize) \cup {6400}
EpochCounts == {1, 20}

KnownDatasets == {"MRI", "MNIST"}
KnownArchitectures == {"CONV", "CONV_RESIDUAL", "INTERLACER_RESIDUAL"}
KnownLossTypes == {"image", "freq"}

AllConfigs ==
    [dataset : Datasets, architecture : Architectures, loss_type : LossTypes,
     loss : Losses, output_domain : Domains, batch_size : BatchSizes,
     num_epochs : EpochCounts, job_name : JobNames]

DefaultConfig ==
    [dataset |-> "MRI", architecture |-> "CONV", loss_type |-> "image",
     loss |-> "L1", output_domain |-> "FREQ", batch_size |-> 32,
     num_epochs |-> 20, job_name |-> <<"r", "1">>]

Deviations(c) == Cardinality({k \in DOMAIN c : c[k] # DefaultConfig[k]})

\* configuration files that differ from the default one in few keys
Configs == {c \in AllConfigs : Deviations(c) <= MaxDeviations}

\* the configurations used in a campaign: the default one, one with another
\* recognized architecture, and one for each key the script dispatches on
\* with a value it does not recognize
CampaignConfigs ==
    {DefaultConfig,
     [DefaultConfig EXCEPT !.architecture = "CONV_RESIDUAL"],
     [DefaultConfig EXCEPT !.dataset = "CIFAR"],
     [DefaultConfig EXCEPT !.architecture = "UNET"],
     [DefaultConfig EXCEPT !.loss_type = "other"]}

CommandLines(configs, suffixes, experiments) ==
    [config : configs, experiment : experiments, suffix : suffixes,
     debug : BOOLEAN]

(***************************************************************************)
(* Process start: argparse has bound args; nothing else is bound yet.      *)
(***************************************************************************)
Start(a, f, n, r) ==
    /\ pc = "read_config"
    /\ run = r
    /\ args = a
    /\ train_set_size = n
    /\ exp_config = None
    /\ img_train = None
    /\ model = None
    /\ job_name = None
    /\ checkpoint_dir = None
    /\ cp_callback = None
    /\ tb_callback = None
    /\ hook = FALSE
    /\ used_loss = None
    /\ compiled = None
    /\ fit_call = None
    /\ error = "none"
    /\ raised_at = "none"
    /\ fs = f
    /\ fs0 = f
    /\ created = {}
    /\ prev_run = None

Init == \E a \in CommandLines(CampaignConfigs, {None}, {None}) :
            Start(a, EmptyFS, 6400, 1)

InitOne == \E a \in CommandLines(Configs, Suffixes, Experiments),
              n \in TrainSizes :
               Start(a, EmptyFS, n, 1)

(***************************************************************************)
(* Exceptions.                                                             *)
(***************************************************************************)
NameError == "NameError"
OSError == "OSError"
ZeroDivisionError == "ZeroDivisionError"
RunExistsError == "ValueError: Tensorboard logs have already been created under this name."
UnrecognizedLossTypeError == "ValueError: Unrecognized loss type."
DataLoadError == "DataLoadError"
FrameworkError == "FrameworkError"
TrainingFailure == "TrainingFailure"

\* an uncaught exception ends the script; the interpreter shuts down
Raise(e) == pc' = "exiting" /\ error' = e /\ raised_at' = pc
\* the step completes and the script goes on at l
Goto(l) == pc' = l /\ error' = error /\ raised_at' = raised_at

Cfg == Val(exp_config)

(***************************************************************************)
(* The steps of the script.                                                *)
(***************************************************************************)
ReadConfig ==
    /\ pc = "read_config"
    /\ exp_config' = Some(args.config)
    /\ Goto("load_dataset")
    /\ UNCHANGED <<run, args, train_set_size, img_train, model, job_name,
                   checkpoint_dir, cp_callback, tb_callback, hook, used_loss,
                   compiled, fit_call, fs, fs0, created, prev_run>>

LoadDataset ==
    /\ pc = "load_dataset"
    /\ \E ok \in BOOLEAN :
         IF Cfg.dataset = "MRI" \/ Cfg.dataset = "MNIST"
         THEN IF ok THEN img_train' = Some(train_set_size) /\ Goto("generators")
              ELSE img_train' = img_train /\ Raise(DataLoadError)
         ELSE ok /\ img_train' = img_train /\ Goto("generators")
    /\ UNCHANGED <<run, args, train_set_size, exp_config, model, job_name,
                   checkpoint_dir, cp_callback, tb_callback, hook, used_loss,
                   compiled, fit_call, fs, fs0, created, prev_run>>

GenerateData ==
    /\ pc = "generators"
    /\ IF img_train = None THEN Raise(NameError) ELSE Goto("pick_architecture")
    /\ UNCHANGED <<run, args, train_set_size, exp_config, img_train, model,
                   job_name, checkpoint_dir, cp_callback, tb_callback, hook,
                   used_loss, compiled, fit_call, fs, fs0, created, prev_run>>

PickArchitecture ==
    /\ pc = "pick_architecture"
    /\ model' = IF Cfg.architecture = "CONV"
                THEN Some("get_conv_no_residual_model")
                ELSE IF Cfg.architecture = "CONV_RESIDUAL"
                THEN Some("get_conv_residual_model")
                ELSE IF Cfg.architecture = "INTERLACER_RESIDUAL"
                THEN Some("get_interlacer_residual_model")
                ELSE model
    /\ Goto("checkpointing")
    /\ UNCHANGED <<run, args, train_set_size, exp_config, img_train, job_name,
                   checkpoint_dir, cp_callback, tb_callback, hook, used_loss,
                   compiled, fit_call, fs, fs0, created, prev_run>>

\* np.random.randint(0, 10)
RandInt == 0..9

JobName(base, debug, d, suffix) ==
    LET name == IF debug THEN DEBUG_JOB \o Str(d) ELSE base
    IN  IF suffix # None THEN name \o <<"*">> \o Val(suffix) ELSE name

\* as DirPath, but the experiment segment is kept in debug mode
DirPathDebugToo(experiment, debug) ==
    IF experiment # None THEN TRAIN_DIR \o Val(experiment) \o <<SEP>>
    ELSE TRAIN_DIR

DirPath(experiment, debug) ==
    IF experiment # None /\ ~debug THEN TRAIN_DIR \o Val(experiment) \o <<SEP>>
    ELSE TRAIN_DIR

Checkpointing ==
    /\ pc = "checkpointing"
    /\ \E d \in IF args.debug THEN RandInt ELSE {0} :
         /\ job_name' = JobName(Cfg.job_name, args.debug, d, args.suffix)
         /\ checkpoint_dir' = PathJoin(DirPath(args.experiment, args.debug),
                                       job_name')
    /\ Goto("makedirs")
    /\ UNCHANGED <<run, args, train_set_size, exp_config, img_train, model,
                   cp_callback, tb_callback, hook, used_loss, compiled,
                   fit_call, fs, fs0, created, prev_run>>

MakeCheckpointDir ==
    /\ pc = "makedirs"
    /\ IF Exists(fs, checkpoint_dir)
       THEN fs' = fs /\ Goto("cp_callback")
       ELSE IF CanMakedirs(fs, checkpoint_dir)
            THEN fs' = Makedirs(fs, checkpoint_dir) /\ Goto("cp_callback")
            ELSE fs' = fs /\ Raise(OSError)
    /\ created' = created \cup (Nodes(fs') \ Nodes(fs))
    /\ UNCHANGED <<run, args, train_set_size, exp_config, img_train, model,
                   job_name, checkpoint_dir, cp_callback, tb_callback, hook,
                   used_loss, compiled, fit_call, fs0, prev_run>>

CheckpointCallback ==
    /\ pc = "cp_callback"
    /\ \E ok \in BOOLEAN :
         IF ok
         THEN /\ cp_callback' = Some(PathJoin(checkpoint_dir, checkpoint_name))
              /\ Goto("register")
         ELSE cp_callback' = cp_callback /\ Raise(FrameworkError)
    /\ UNCHANGED <<run, args, train_set_size, exp_config, img_train, model,
                   job_name, checkpoint_dir, tb_callback, hook, used_loss,
                   compiled, fit_call, fs, fs0, created, prev_run>>

\* as RegisterDelLogs, but the hook is registered whatever the debug flag
RegisterDelLogsAlways ==
    /\ pc = "register"
    /\ hook' = TRUE
    /\ Goto("copy_config")
    /\ UNCHANGED <<run, args, train_set_size, exp_config, img_train, model,
                   job_name, checkpoint_dir, cp_callback, tb_callback,
                   used_loss, compiled, fit_call, fs, fs0, created, prev_run>>

RegisterDelLogs ==
    /\ pc = "register"
    /\ hook' = args.debug
    /\ Goto("copy_config")
    /\ UNCHANGED <<run, args, train_set_size, exp_config, img_train, model,
                   job_name, checkpoint_dir, cp_callback, tb_callback,
                   used_loss, compiled, fit_call, fs, fs0, created, prev_run>>

CopyConfig ==
    /\ pc = "copy_config"
    /\ LET dst == PathJoin(checkpoint_dir, job_name \o CONFIG_INI)
       IN  \E ok \in BOOLEAN :
             IF ok /\ CanWrite(fs, dst)
             THEN fs' = WriteFile(fs, dst, <<"config", args.config>>)
                  /\ Goto("summary")
             ELSE fs' = fs /\ Raise(OSError)
    /\ created' = created \cup (Nodes(fs') \ Nodes(fs))
    /\ UNCHANGED <<run, args, train_set_size, exp_config, img_train, model,
                   job_name, checkpoint_dir, cp_callback, tb_callback, hook,
                   used_loss, compiled, fit_call, fs0, prev_run>>

WriteSummary ==
    /\ pc = "summary"
    /\ LET summary_file == PathJoin(checkpoint_dir, SUMMARY_TXT)
       IN  IF ~CanWrite(fs, summary_file)
           THEN fs' = fs /\ Raise(OSError)
           ELSE IF model = None
           THEN fs' = WriteFile(fs, summary_file, <<"summary", None>>)
                /\ Raise(NameError)
           ELSE fs' = WriteFile(fs, summary_file, <<"summary", model>>)
                /\ Goto("tensorboard")
    /\ created' = created \cup (Nodes(fs') \ Nodes(fs))
    /\ UNCHANGED <<run, args, train_set_size, exp_config, img_train, model,
                   job_name, checkpoint_dir, cp_callback, tb_callback, hook,
                   used_loss, compiled, fit_call, fs0, prev_run>>

tb_dir == PathJoin(checkpoint_dir, TENSORBOARD)

\* as Tensorboard, but an existing log directory is reused
TensorboardExistOk ==
    /\ pc = "tensorboard"
    /\ IF Exists(fs, tb_dir)
       THEN fs' = fs /\ Goto("tb_callback")
       ELSE IF CanMakedirs(fs, tb_dir)
            THEN fs' = Makedirs(fs, tb_dir) /\ Goto("tb_callback")
            ELSE fs' = fs /\ Raise(OSError)
    /\ created' = created \cup (Nodes(fs') \ Nodes(fs))
    /\ UNCHANGED <<run, args, train_set_size, exp_config, img_train, model,
                   job_name, checkpoint_dir, cp_callback, tb_callback, hook,
                   used_loss, compiled, fit_call, fs0, prev_run>>

Tensorboard ==
    /\ pc = "tensorboard"
    /\ IF Exists(fs, tb_dir)
       THEN fs' = fs /\ Raise(RunExistsError)
       ELSE IF CanMakedirs(fs, tb_dir)
            THEN fs' = Makedirs(fs, tb_dir) /\ Goto("tb_callback")
            ELSE fs' = fs /\ Raise(OSError)
    /\ created' = created \cup (Nodes(fs') \ Nodes(fs))
    /\ UNCHANGED <<run, args, train_set_size, exp_config, img_train, model,
                   job_name, checkpoint_dir, cp_callback, tb_callback, hook,
                   used_loss, compiled, fit_call, fs0, prev_run>>

TensorboardCallback ==
    /\ pc = "tb_callback"
    /\ \E ok \in BOOLEAN :
         IF ok THEN tb_callback' = Some(tb_dir) /\ Goto("select_loss")
         ELSE tb_callback' = tb_callback /\ Raise(FrameworkError)
    /\ UNCHANGED <<run, args, train_set_size, exp_config, img_train, model,
                   job_name, checkpoint_dir, cp_callback, hook, used_loss,
                   compiled, fit_call, fs, fs0, created, prev_run>>

\* losses.image_loss(domain, kind) and losses.fourier_loss(domain, kind)
image_loss(domain, kind) == [family |-> "image", domain |-> domain, kind |-> kind]
fourier_loss(domain, kind) == [family |-> "fourier", domain |-> domain, kind |-> kind]

\* as SelectLoss, but every loss type other than 'image' selects the Fourier loss
SelectLossNoElse ==
    /\ pc = "select_loss"
    /\ IF Cfg.loss_type = "image"
       THEN /\ used_loss' = Some(image_loss(Cfg.output_domain, Cfg.loss))
            /\ Goto("compile")
       ELSE /\ used_loss' = Some(fourier_loss(Cfg.output_domain, Cfg.loss))
            /\ Goto("compile")
    /\ UNCHANGED <<run, args, train_set_size, exp_config, img_train, model,
                   job_name, checkpoint_dir, cp_callback, tb_callback, hook,
                   compiled, fit_call, fs, fs0, created, prev_run>>

SelectLoss ==
    /\ pc = "select_loss"
    /\ IF Cfg.loss_type = "image"
       THEN /\ used_loss' = Some(image_loss(Cfg.output_domain, Cfg.loss))
            /\ Goto("compile")
       ELSE IF Cfg.loss_type = "freq"
       THEN /\ used_loss' = Some(fourier_loss(Cfg.output_domain, Cfg.loss))
            /\ Goto("compile")
       ELSE used_loss' = used_loss /\ Raise(UnrecognizedLossTypeError)
    /\ UNCHANGED <<run, args, train_set_size, exp_config, img_train, model,
                   job_name, checkpoint_dir, cp_callback, tb_callback, hook,
                   compiled, fit_call, fs, fs0, created, prev_run>>

Metrics ==
    <<fourier_loss(Cfg.output_domain, "L1"), fourier_loss(Cfg.output_domain, "L2"),
      image_loss(Cfg.output_domain, "L1"), image_loss(Cfg.output_domain, "L2")>>

Compile ==
    /\ pc = "compile"
    /\ \E ok \in BOOLEAN :
         IF ok
         THEN /\ compiled' = Some([loss |-> Val(used_loss), metrics |-> Metrics])
              /\ Goto("fit")
         ELSE compiled' = compiled /\ Raise(FrameworkError)
    /\ UNCHANGED <<run, args, train_set_size, exp_config, img_train, model,
                   job_name, checkpoint_dir, cp_callback, tb_callback, hook,
                   used_loss, fit_call, fs, fs0, created, prev_run>>

\* as IntDiv, but rounding up
IntDivCeil(a, b) == (a + b - 1) \div b

\* int(a / b) for natural a and positive b
IntDiv(a, b) == a \div b

Sizing(debug, cfg, shape0) ==
    IF debug
    THEN [epochs |-> 5, steps_per_epoch |-> 2, validation_steps |-> 1]
    ELSE [epochs |-> cfg.num_epochs,
          steps_per_epoch |-> IntDiv(shape0, cfg.batch_size),
          validation_steps |-> 8]

\* ModelCheckpoint(period=5): the epochs whose weights are saved
SavedEpochs(epochs) == {e \in 1..epochs : e % 5 = 0}

RECURSIVE WriteAll(_, _, _)
WriteAll(f, paths, data) ==
    IF paths = {} THEN f
    ELSE LET p == CHOOSE q \in paths : TRUE
         IN  WriteAll(WriteFile(f, p, data), paths \ {p}, data)

Fit ==
    /\ pc = "fit"
    /\ IF ~args.debug /\ Cfg.batch_size = 0
       THEN fit_call' = fit_call /\ fs' = fs /\ Raise(ZeroDivisionError)
       ELSE LET sizing == Sizing(args.debug, Cfg, Val(img_train))
                ckpts == {Format(Val(cp_callback), e) :
                            e \in SavedEpochs(sizing.epochs)}
                logs == {PathJoin(Val(tb_callback), EVENTS)}
            IN  /\ fit_call' = Some(sizing)
                /\ \E ok \in BOOLEAN :
                     IF ok
                     THEN /\ fs' = WriteAll(WriteAll(fs, logs, <<"events", model>>),
                                            ckpts, <<"weights", model>>)
                          /\ Goto("exiting")
                     ELSE fs' = fs /\ Raise(TrainingFailure)
    /\ created' = created \cup (Nodes(fs') \ Nodes(fs))
    /\ UNCHANGED <<run, args, train_set_size, exp_config, img_train, model,
                   job_name, checkpoint_dir, cp_callback, tb_callback, hook,
                   used_loss, compiled, fs0, prev_run>>

\* interpreter shutdown: the registered atexit hooks run
Exit ==
    /\ pc = "exiting"
    /\ fs' = IF hook THEN Rmtree(fs, checkpoint_dir) ELSE fs
    /\ Goto("exited")
    /\ UNCHANGED <<run, args, train_set_size, exp_config, img_train, model,
                   job_name, checkpoint_dir, cp_callback, tb_callback, hook,
                   used_loss, compiled, fit_call, fs0, created, prev_run>>

\* the next process of the campaign starts on the file system left behind
NextRun ==
    /\ pc = "exited"
    /\ run < MaxRuns
    /\ \E a \in CommandLines(CampaignConfigs, {None}, {None}) :
         /\ pc' = "read_config"
         /\ run' = run + 1
         /\ args' = a
         /\ exp_config' = None
         /\ img_train' = None
         /\ model' = None
         /\ job_name' = None
         /\ checkpoint_dir' = None
         /\ cp_callback' = None
         /\ tb_callback' = None
         /\ hook' = FALSE
         /\ used_loss' = None
         /\ compiled' = None
         /\ fit_call' = None
         /\ error' = "none"
         /\ raised_at' = "none"
         /\ fs0' = fs
         /\ created' = {}
    /\ prev_run' = IF args.debug THEN None
                   ELSE Some([experiment |-> args.experiment,
                              suffix |-> args.suffix,
                              job_name |-> args.config.job_name,
                              made_tb |-> Components(tb_dir) \in created])
    /\ UNCHANGED <<train_set_size, fs>>

Step ==
    \/ ReadConfig
    \/ LoadDataset
    \/ GenerateData
    \/ PickArchitecture
    \/ Checkpointing
    \/ MakeCheckpointDir
    \/ CheckpointCallback
    \/ RegisterDelLogs
    \/ CopyConfig
    \/ WriteSummary
    \/ Tensorboard
    \/ TensorboardCallback
    \/ SelectLoss
    \/ Compile
    \/ Fit
    \/ Exit

Next == Step \/ NextRun

Spec == Init /\ [][Next]_vars

SpecOne == InitOne /\ [][Step]_vars

(***************************************************************************)
(* Properties.                                                             *)
(***************************************************************************)
Finished == pc \in {"exiting", "exited"}
Derived == pc \notin {"read_config", "load_dataset", "generators",
                      "pick_architecture", "checkpointing"}
              /\ checkpoint_dir # None
SuffixPart == IF args.suffix # None THEN <<"*">> \o Val(args.suffix) ELSE <<>>
Stem == SubSeq(job_name, 1, Len(job_name) - Len(SuffixPart))
Digits == {"0", "1", "2", "3", "4", "5", "6", "7", "8", "9"}

\* the job name is the config's name, or 'debug_job' and one digit in debug
\* mode, followed by '*' and the suffix when a suffix is given
NameDerived ==
    /\ Len(job_name) >= Len(SuffixPart)
    /\ job_name = Stem \o SuffixPart
    /\ ~args.debug => Stem = args.config.job_name
    /\ args.debug => \E c \in Digits : Stem = DEBUG_JOB \o <<c>>

ExperimentSegment ==
    IF args.experiment # None /\ ~args.debug
    THEN Val(args.experiment) \o <<"/">> ELSE <<>>

PastTensorboard ==
    \/ pc \in {"tb_callback", "select_loss", "compile", "fit"}
    \/ raised_at \in {"tb_callback", "select_loss", "compile", "fit"}
    \/ tb_callback # None \/ used_loss # None
    \/ compiled # None \/ fit_call # None
    \/ (Finished /\ error = "none")

\* the process before this one ran outside debug mode with the same
\* experiment, job name and suffix (the training root is fixed)
SameAsPrevious ==
    /\ prev_run # None
    /\ Val(prev_run).experiment = args.experiment
    /\ Val(prev_run).suffix = args.suffix
    /\ Val(prev_run).job_name = args.config.job_name

\* a process that finds tensorboard/ in its checkpoint directory stops at the
\* tensorboard step with the ValueError and gets no further
StopsOnExistingLogs ==
    /\ Exists(fs0, tb_dir) => ~PastTensorboard
    /\ raised_at = "tensorboard" /\ Exists(fs0, tb_dir) => error = RunExistsError
    /\ error = RunExistsError => raised_at = "tensorboard" /\ Exists(fs0, tb_dir)

\* a checkpoint directory that exists without tensorboard/ makes neither
\* directory step raise
BareDirectoryAccepted ==
    Exists(fs0, checkpoint_dir) /\ ~Exists(fs0, tb_dir) =>
        raised_at \notin {"makedirs", "tensorboard"}

\* C2 as stated: a process that finds tensorboard/ in its checkpoint
\* directory stops at the tensorboard step with the ValueError, before loss
\* selection, compile and fit; of two processes run one after the other
\* outside debug mode with the same experiment, job name and suffix, the
\* second never gets past that step and never ends without an error; an
\* existing checkpoint directory without tensorboard/ raises nothing.
C2_AsStated ==
    Derived =>
      /\ StopsOnExistingLogs
      /\ ~args.debug /\ SameAsPrevious =>
            /\ ~PastTensorboard
            /\ pc = "exited" => error # "none"
      /\ BareDirectoryAccepted

\* C2: as above, but the second of the two processes is stopped only when the
\* first got as far as creating tensorboard/: then tensorboard/ is there
\* when the second starts, which never gets past the tensorboard step and
\* never ends without an error.
C2_RunExists ==
    Derived =>
      /\ StopsOnExistingLogs
      /\ ~args.debug /\ SameAsPrevious /\ Val(prev_run).made_tb =>
            /\ Exists(fs0, tb_dir)
            /\ ~PastTensorboard
            /\ pc = "exited" => error # "none"
      /\ BareDirectoryAccepted

C2_Witness ==
    /\ pc = "exited" /\ run = 2 /\ ~args.debug
    /\ SameAsPrevious /\ Val(prev_run).made_tb
    /\ error = RunExistsError

\* C3 as stated: when the ValueError of the tensorboard step is raised, every
\* file that was there when the process started is still there with the
\* content it had.
C3_NoClobber ==
    pc = "exiting" /\ error = RunExistsError =>
        \A q \in DOMAIN fs0.files :
            q \in DOMAIN fs.files /\ fs.files[q] = fs0.files[q]

BadEnum(c) ==
    \/ c.dataset \notin KnownDatasets
    \/ c.architecture \notin KnownArchitectures
    \/ c.loss_type \notin KnownLossTypes

\* C4 as stated: a process whose config has a dataset, architecture or
\* loss_type outside the recognized sets ends in an error, and at that error
\* it has created no directory.
C4_ConfigErrorFirst ==
    Finished /\ BadEnum(args.config) =>
        /\ error # "none"
        /\ error \in {NameError, UnrecognizedLossTypeError} => created = {}

\* C5 as stated: with an unrecognized architecture the script does not go on
\* past model selection: the selection step raises, and nothing of the run
\* directory set-up happens.
C5_UnknownArchitecture ==
    img_train # None /\ Cfg.architecture \notin KnownArchitectures =>
        /\ pc \in {"generators", "pick_architecture", "exiting", "exited"}
        /\ Finished => raised_at = "pick_architecture"
        /\ created = {} /\ ~hook

\* C6 as stated: a debug process that created its checkpoint directory has
\* exited only with that directory gone.
C6_DebugCleanup ==
    pc = "exited" /\ args.debug /\ checkpoint_dir # None
      /\ Components(checkpoint_dir) \in created
        => ~Exists(fs, checkpoint_dir)

\* C7: fit_generator is called with epochs=5, steps_per_epoch=2,
\* validation_steps=1 in debug mode; otherwise with the config's num_epochs,
\* validation_steps=8 and steps_per_epoch the floor of train_set_size over
\* batch_size (200 for 6400 and 32).
C7_FitSizing ==
    fit_call # None =>
      LET s == Val(fit_call)
          b == args.config.batch_size
      IN  IF args.debug
          THEN s.epochs = 5 /\ s.steps_per_epoch = 2 /\ s.validation_steps = 1
          ELSE /\ s.epochs = args.config.num_epochs
               /\ s.validation_steps = 8
               /\ b > 0
               /\ s.steps_per_epoch * b <= train_set_size
               /\ train_set_size < (s.steps_per_epoch + 1) * b
               /\ train_set_size = 6400 /\ b = 32 => s.steps_per_epoch = 200

C7_Witness ==
    /\ fit_call # None /\ ~args.debug
    /\ train_set_size = 4 /\ args.config.batch_size = 3
    /\ Val(fit_call).steps_per_epoch = 1

\* C8: the loss compiled into the model is the image loss of (output_domain,
\* loss) for loss_type 'image' and the Fourier loss of them for 'freq'; with
\* any other loss_type the process stops at loss selection with the ValueError
\* and neither compile nor fit happens; the compiled metrics are always
\* Fourier-L1, Fourier-L2, image-L1, image-L2.
C8_LossSelection ==
    LET c == args.config
        family == IF c.loss_type = "image" THEN "image" ELSE "fourier"
    IN  /\ compiled # None =>
              /\ c.loss_type \in {"image", "freq"}
              /\ Val(compiled).loss =
                   [family |-> family, domain |-> c.output_domain, kind |-> c.loss]
              /\ Val(compiled).metrics =
                   <<[family |-> "fourier", domain |-> c.output_domain, kind |-> "L1"],
                     [family |-> "fourier", domain |-> c.output_domain, kind |-> "L2"],
                     [family |-> "image", domain |-> c.output_domain, kind |-> "L1"],
                     [family |-> "image", domain |-> c.output_domain, kind |-> "L2"]>>
        /\ c.loss_type \notin {"image", "freq"} =>
              /\ pc \notin {"compile", "fit"}
              /\ used_loss = None /\ compiled = None /\ fit_call = None
              /\ tb_callback # None /\ Finished =>
                    error = UnrecognizedLossTypeError /\ raised_at = "select_loss"

C8_Witness ==
    /\ pc = "exited" /\ args.config.loss_type = "other"
    /\ error = UnrecognizedLossTypeError
    /\ tb_callback # None /\ compiled = None

\* C9: a process not in debug mode registers no exit hook and removes
\* nothing: whatever it has created, and whatever was there when it started,
\* exists at every later step and after it has exited.
C9_ArtifactsKept ==
    ~args.debug => /\ ~hook
                   /\ created \subseteq Nodes(fs)
                   /\ Nodes(fs0) \subseteq Nodes(fs)

C9_Witness ==
    /\ pc = "exited" /\ ~args.debug
    /\ raised_at = "fit" /\ error = TrainingFailure
    /\ Components(tb_dir) \in created
    /\ Components(tb_dir) \in fs.dirs

\* C10 as stated: after a debug process has exited, everything that was on
\* disk when it started is still there.
C10_DebugKeepsOthers ==
    pc = "exited" /\ args.debug => Nodes(fs0) \subseteq Nodes(fs)

=============================================================================
